---- MODULE Spec2Model ----
(***************************************************************************)
(* okec: task dispatching between base stations, edge devices and the      *)
(* cloud (src/base_station.cc).  The model covers base_station's two       *)
(* message handlers, the dispatch ledger kept by base_station_container    *)
(* (m_dispatching_record), link_cloud and the container's indexed access.  *)
(***************************************************************************)
EXTENDS Integers, Sequences, FiniteSets, TLC

\* ------------------------------------------------------------------ bounds
NumBS == 3          \* base stations in the container
NumTasks == 2       \* tasks that may enter the protocol
NumDevices == 2     \* edge devices connected to each base station
MaxChanges == 1     \* resource changes of edge devices during a run
MaxRecords == 3     \* records the ledger holds when filled through the interface

BS == 1..NumBS
Tasks == 1..NumTasks

\* ------------------------------------------------------- addresses, tasks
\* An address/port pair as the transport sees it.
bs_address(b) == [kind |-> "bs", bs |-> b, idx |-> 0]
device_address(b, i) == [kind |-> "dev", bs |-> b, idx |-> i]
CloudAddr == [kind |-> "cs", bs |-> 0, idx |-> 0]
\* A default constructed address (IsInitialized() is false).
UninitAddr == [kind |-> "uninit", bs |-> 0, idx |-> 0]

\* fmt::format("{:ip}", address): the dotted text of a station's address.
format_ip(a) == "10.1." \o ToString(a.bs) \o "." \o ToString(a.idx + 1)

IPs == {format_ip(bs_address(b)) : b \in BS}

\* The task carried by a message (message::to_task).
task_id(k) == "t" \o ToString(k)
TaskIds == {task_id(k) : k \in Tasks}
\* Odd tasks need (3, 2) and pay 2, even tasks need (2, 3) and pay 3.
TaskOf(k) ==
  IF k % 2 = 1
  THEN [id |-> task_id(k), needed_cpu_cycles |-> 3, needed_memory |-> 2, budget |-> 2]
  ELSE [id |-> task_id(k), needed_cpu_cycles |-> 2, needed_memory |-> 3, budget |-> 3]

\* The resource an edge device offers: free cpu, free memory, price.
\* The first has room for every task, at the budget of the odd ones; the
\* second has exactly the cpu an odd task and exactly the memory an even
\* task needs; the third costs more than an odd task pays and exactly what
\* an even task pays.
Offers ==
  { [free_cpu_cycles |-> 4, free_memory |-> 4, price |-> 2],
    [free_cpu_cycles |-> 3, free_memory |-> 3, price |-> 2],
    [free_cpu_cycles |-> 4, free_memory |-> 4, price |-> 3] }

\* The two cloud servers a setup may link: one whose network is installed
\* and one whose address is not initialized yet.
Clouds == { [address |-> CloudAddr], [address |-> UninitAddr] }
IsInitialized(a) == a.kind # "uninit"

VARIABLES
  phase,                \* "setup", "running" (Simulator::Run) or "exited"
  m_cs_address,         \* base_station::m_cs_address, per station
  m_edge_devices,       \* the devices connected to each station, in order
  m_dispatching_record, \* the container's multimap task id -> station ip
  network,              \* packets in flight to base stations
  sent,                 \* per task, the packets written so far, in order
  steps,                \* per task, the handler invocations so far
  entered,              \* per task, the message type it entered with
  changes,              \* resource changes so far
  last,                 \* the last call made on the public interface
  calls                 \* per station, its call on the ledger when stations
                        \* run concurrently

vars == <<phase, m_cs_address, m_edge_devices, m_dispatching_record, network,
          sent, steps, entered, changes, last, calls>>

NoCall == [op |-> "none", task |-> "", arg |-> "", index |-> 0, result |-> "none"]
\* No station is in a call on the ledger.
NoCalls ==
  [b \in BS |-> [st |-> "idle", op |-> "none", arg |-> "", raced |-> FALSE,
                 result |-> "none", after |-> {}]]

\* ---------------------------------------------------- the dispatch ledger
\* m_dispatching_record is a multimap: [task id -> [ip -> number of records]].
EmptyLedger == [id \in TaskIds |-> [ip \in IPs |-> 0]]

\* Mutant: the record is not made.
container_dispatching_record_dropped(ledger, id, ip) == ledger

\* base_station_container::dispatching_record: multimap::emplace.
container_dispatching_record(ledger, id, ip) ==
  [ledger EXCEPT ![id][ip] = @ + 1]

\* Mutant: true on a record equal to bs_ip, false when there is none, while
\* the caller still takes the first station that yields true.
container_dispatched_swapped(ledger, id, ip) ==
  IF \E x \in IPs : x = ip /\ ledger[id][x] > 0 THEN TRUE ELSE FALSE

\* base_station_container::dispatched: scans equal_range(task_id), returns
\* false on the first record equal to bs_ip and true when there is none.
container_dispatched(ledger, id, ip) ==
  IF \E x \in IPs : x = ip /\ ledger[id][x] > 0 THEN FALSE ELSE TRUE

\* Mutant: nothing is erased.
container_erase_nothing(ledger, id) == ledger

\* Mutant: the records of every task are erased (clear()).
container_erase_all(ledger, id) == [x \in TaskIds |-> [ip \in IPs |-> 0]]

\* Mutant: only one station's records are erased (erase(find(key))).
container_erase_one(ledger, id) ==
  IF \A x \in IPs : ledger[id][x] = 0 THEN ledger
  ELSE LET one == CHOOSE x \in IPs : ledger[id][x] > 0
       IN  [ledger EXCEPT ![id][one] = 0]

\* base_station_container::erase_dispatching_record: multimap::erase(key).
container_erase_dispatching_record(ledger, id) ==
  [ledger EXCEPT ![id] = [ip \in IPs |-> 0]]

\* ----------------------------------------------------------- the matching
\* Mutant: a device with exactly the needed cpu cycles is taken.
device_fits_cpu_equal(d, t) ==
  /\ d.free_cpu_cycles >= t.needed_cpu_cycles
  /\ d.free_memory > t.needed_memory
  /\ d.price <= t.budget

\* The condition both handlers and has_free_resource test on a device.
device_fits(d, t) ==
  /\ d.free_cpu_cycles > t.needed_cpu_cycles
  /\ d.free_memory > t.needed_memory
  /\ d.price <= t.budget

\* for (auto device : *m_edge_devices) { if (...) { ...; break; } }
\* the index of the device the loop stops at, 0 when it runs to the end.
RECURSIVE scan_devices(_, _, _)
scan_devices(devs, t, i) ==
  IF i > Len(devs) THEN 0
  ELSE IF device_fits(devs[i], t) THEN i
  ELSE scan_devices(devs, t, i + 1)

\* Mutant: the loop does not break.
loop_devices_no_break(devs, t) ==
  LET F[i \in 0..Len(devs)] ==
        IF i = 0 THEN <<>>
        ELSE IF devs[i].free_cpu_cycles > t.needed_cpu_cycles
                /\ devs[i].free_memory > t.needed_memory
                /\ devs[i].price <= t.budget
             THEN Append(F[i - 1], i) ELSE F[i - 1]
  IN  F[Len(devs)]

\* The devices the body of the if statement runs for, in order: the loop
\* breaks after the first.
loop_devices(devs, t) ==
  LET i == scan_devices(devs, t, 1) IN IF i = 0 THEN <<>> ELSE <<i>>

\* base_station::has_free_resource: does some device of the station fit t.
has_free_resource(devs, t) ==
  \E i \in 1..Len(devs) : device_fits(devs[i], t)

\* Mutant: the scan starts at the second station.
RECURSIVE find_if_from_second(_, _, _)
find_if_from_second(ledger, id, j) ==
  IF j > NumBS THEN 0
  ELSE IF j > 1 /\ container_dispatched(ledger, id, format_ip(bs_address(j))) THEN j
  ELSE find_if_from_second(ledger, id, j + 1)

\* Mutant: the last station that yields true is taken.
RECURSIVE find_if_last(_, _, _)
find_if_last(ledger, id, j) ==
  IF j > NumBS THEN 0
  ELSE LET later == find_if_last(ledger, id, j + 1)
       IN  IF later > 0 THEN later
           ELSE IF container_dispatched(ledger, id, format_ip(bs_address(j))) THEN j
           ELSE 0

\* std::find_if(m_base_stations->begin(), end(), non_dispatched_bs):
\* the first station for which dispatched(...) returns true, 0 for end().
RECURSIVE find_if_non_dispatched(_, _, _)
find_if_non_dispatched(ledger, id, j) ==
  IF j > NumBS THEN 0
  ELSE IF container_dispatched(ledger, id, format_ip(bs_address(j))) THEN j
  ELSE find_if_non_dispatched(ledger, id, j + 1)

\* The message types of message.h the handlers use.
message_dispatching == "dispatching"
message_offloading_task == "offloading_task"
message_handling == "handling"
message_dispatching_success == "dispatching_success"
message_dispatching_failure == "dispatching_failure"

\* A packet: message::to_packet of a message of the given type and task.
Packet(type, t) == [type |-> type, task |-> t]
\* msg.type(x): the message with its type rewritten.
set_type(pkt, type) == [pkt EXCEPT !.type = type]
\* m_udp_application->write(packet, address, port), as the log records it.
Written(b, dst, pkt) == [src |-> b, dst |-> dst, type |-> pkt.type, task |-> pkt.task]
\* A packet on its way to a base station.
InFlight(dst, pkt) == [dst |-> dst, type |-> pkt.type, task |-> pkt.task]

\* -------------------------------------------------------------------- Init
\* The devices a run starts with: every station's devices offer p, except
\* that the devices of one station offer q.
InitialDevices ==
  { [b \in BS |-> [i \in 1..NumDevices |-> IF b = s THEN q ELSE p]] :
      <<p, q, s>> \in Offers \X Offers \X BS }

\* The runs explored: one task submitted while device resources change, or
\* every task submitted while they stay as they are.
InitialTasks ==
  { [chg |-> 0,
     ent |-> [id \in TaskIds |-> IF id = task_id(1) THEN "none" ELSE "unused"]],
    [chg |-> MaxChanges, ent |-> [id \in TaskIds |-> "none"]] }

\* After construction: stations created, nothing linked, nothing received.
InitSetup ==
  /\ phase = "setup"
  /\ m_cs_address = [b \in BS |-> UninitAddr]
  /\ \E p \in Offers : m_edge_devices = [b \in BS |-> [i \in 1..NumDevices |-> p]]
  /\ m_dispatching_record = EmptyLedger
  /\ network = {}
  /\ sent = [id \in TaskIds |-> <<>>]
  /\ steps = [id \in TaskIds |-> 0]
  /\ entered = [id \in TaskIds |-> IF id = task_id(1) THEN "none" ELSE "unused"]
  /\ changes = 0
  /\ last = NoCall
  /\ calls = NoCalls

\* After a setup that linked every station to the cloud and started the
\* simulation.
Init ==
  /\ phase = "running"
  /\ m_cs_address = [b \in BS |-> CloudAddr]
  /\ m_edge_devices \in InitialDevices
  /\ m_dispatching_record = EmptyLedger
  /\ network = {}
  /\ sent = [id \in TaskIds |-> <<>>]
  /\ steps = [id \in TaskIds |-> 0]
  /\ \E r \in InitialTasks : entered = r.ent /\ changes = r.chg
  /\ last = NoCall
  /\ calls = NoCalls

\* ------------------------------------------------------------------- setup
\* Mutant: the address is stored without the check.
bs_link_cloud_unchecked(addr, cs) == [exited |-> FALSE, address |-> cs.address]

\* base_station::link_cloud: exit(0) when the cloud's address is not
\* initialized, else store the address.  The result is the station's
\* m_cs_address afterwards and whether the process exited.
bs_link_cloud(addr, cs) ==
  IF ~IsInitialized(cs.address)
  THEN [exited |-> TRUE, address |-> addr]
  ELSE [exited |-> FALSE, address |-> cs.address]

\* base_station_container::link_cloud: for_each station, in order; the
\* loop ends with the process when a station's link_cloud exits.
RECURSIVE for_each_link_cloud(_, _, _)
for_each_link_cloud(addrs, cs, b) ==
  IF b > NumBS THEN [exited |-> FALSE, addresses |-> addrs]
  ELSE LET r == bs_link_cloud(addrs[b], cs)
       IN  IF r.exited THEN [exited |-> TRUE, addresses |-> addrs]
           ELSE for_each_link_cloud([addrs EXCEPT ![b] = r.address], cs, b + 1)

LinkCall(b, cs, exited) ==
  [op |-> "link_cloud", task |-> "", arg |-> cs.address.kind, index |-> b,
   result |-> IF exited THEN "exit" ELSE "ok"]

\* bs->link_cloud(cs) called by the setup code on one station.
link_cloud(b, cs) ==
  /\ phase = "setup"
  /\ LET r == bs_link_cloud(m_cs_address[b], cs)
     IN  /\ m_cs_address' = [m_cs_address EXCEPT ![b] = r.address]
         /\ phase' = IF r.exited THEN "exited" ELSE phase
         /\ last' = LinkCall(b, cs, r.exited)
  /\ UNCHANGED <<m_edge_devices, m_dispatching_record, network, sent, steps,
                 entered, changes, calls>>

\* base_stations.link_cloud(cs) called by the setup code on the container.
container_link_cloud(cs) ==
  /\ phase = "setup"
  /\ LET r == for_each_link_cloud(m_cs_address, cs, 1)
     IN  /\ m_cs_address' = r.addresses
         /\ phase' = IF r.exited THEN "exited" ELSE phase
         /\ last' = LinkCall(0, cs, r.exited)
  /\ UNCHANGED <<m_edge_devices, m_dispatching_record, network, sent, steps,
                 entered, changes, calls>>

\* The simulation starts: from here on packets are delivered to handlers.
Run ==
  /\ phase = "setup"
  /\ phase' = "running"
  /\ last' = NoCall
  /\ UNCHANGED <<m_cs_address, m_edge_devices, m_dispatching_record, network,
                 sent, steps, entered, changes, calls>>

\* ------------------------------------------------------------- environment
\* An originator sends a task to a base station, as a request
\* (message_dispatching) or as an offloading message.
Inject(k, b, type) ==
  /\ phase = "running"
  /\ entered[task_id(k)] = "none"
  /\ entered' = [entered EXCEPT ![task_id(k)] = type]
  /\ network' = network \cup {InFlight(bs_address(b), Packet(type, TaskOf(k)))}
  /\ UNCHANGED <<phase, m_cs_address, m_edge_devices, m_dispatching_record,
                 sent, steps, changes, last, calls>>

\* An edge device's free resources or price change.
ResourceChange(b, i, p) ==
  /\ phase = "running"
  /\ changes < MaxChanges
  /\ m_edge_devices[b][i] # p
  /\ m_edge_devices' = [m_edge_devices EXCEPT ![b][i] = p]
  /\ changes' = changes + 1
  /\ UNCHANGED <<phase, m_cs_address, m_dispatching_record, network, sent,
                 steps, entered, last, calls>>

\* Mutant: the matched device's free resources are reduced by what the task
\* needs.
on_dispatching_message_reserving(b, m) ==
  /\ phase = "running"
  /\ m \in network
  /\ m.dst = bs_address(b)
  /\ m.type = message_dispatching
  /\ LET msg == Packet(m.type, m.task)
         t == m.task
         hit == loop_devices(m_edge_devices[b], t)
         handled == Len(hit) > 0
         body(n) == << Written(b, device_address(b, hit[n]), set_type(msg, message_handling)),
                       Written(b, m_cs_address[b], set_type(msg, message_dispatching_success)) >>
         out == IF handled
                THEN [n \in 1..(2 * Len(hit)) |-> body((n + 1) \div 2)[2 - (n % 2)]]
                ELSE << Written(b, m_cs_address[b], set_type(msg, message_dispatching_failure)) >>
     IN  /\ sent' = [sent EXCEPT ![t.id] = @ \o out]
         /\ steps' = [steps EXCEPT ![t.id] = @ + 1]
         /\ network' = network \ {m}
         /\ m_edge_devices' =
               IF handled
               THEN [m_edge_devices EXCEPT ![b][hit[1]] =
                       [@ EXCEPT !.free_cpu_cycles = @ - t.needed_cpu_cycles,
                                 !.free_memory = @ - t.needed_memory]]
               ELSE m_edge_devices
  /\ UNCHANGED <<phase, m_cs_address, m_dispatching_record, entered, changes, last, calls>>

\* Mutant: a request no device takes is forwarded to the first station not
\* recorded, as the offloading handler does, instead of being reported.
on_dispatching_message_forwarding(b, m) ==
  /\ phase = "running"
  /\ m \in network
  /\ m.dst = bs_address(b)
  /\ m.type = message_dispatching
  /\ LET msg == Packet(m.type, m.task)
         t == m.task
         hit == loop_devices(m_edge_devices[b], t)
         handled == Len(hit) > 0
         body(n) == << Written(b, device_address(b, hit[n]), set_type(msg, message_handling)),
                       Written(b, m_cs_address[b], set_type(msg, message_dispatching_success)) >>
         recorded == container_dispatching_record(m_dispatching_record, t.id,
                                                  format_ip(bs_address(b)))
         j == find_if_non_dispatched(recorded, t.id, 1)
     IN  /\ steps' = [steps EXCEPT ![t.id] = @ + 1]
         /\ IF handled
            THEN /\ sent' = [sent EXCEPT ![t.id] = @ \o
                       [n \in 1..(2 * Len(hit)) |-> body((n + 1) \div 2)[2 - (n % 2)]]]
                 /\ network' = network \ {m}
            ELSE IF j > 0
            THEN /\ sent' = [sent EXCEPT ![t.id] = Append(@, Written(b, bs_address(j), msg))]
                 /\ network' = (network \ {m}) \cup {InFlight(bs_address(j), msg)}
            ELSE /\ sent' = [sent EXCEPT ![t.id] = Append(@,
                       Written(b, m_cs_address[b], set_type(msg, message_dispatching_failure)))]
                 /\ network' = network \ {m}
  /\ UNCHANGED <<phase, m_cs_address, m_edge_devices, m_dispatching_record,
                 entered, changes, last, calls>>

\* Mutant: a request no device takes leaves a record of the station in the
\* dispatch ledger before the failure notice is written.
on_dispatching_message_recording(b, m) ==
  /\ phase = "running"
  /\ m \in network
  /\ m.dst = bs_address(b)
  /\ m.type = message_dispatching
  /\ LET msg == Packet(m.type, m.task)
         t == m.task
         hit == loop_devices(m_edge_devices[b], t)
         handled == Len(hit) > 0
         body(n) == << Written(b, device_address(b, hit[n]), set_type(msg, message_handling)),
                       Written(b, m_cs_address[b], set_type(msg, message_dispatching_success)) >>
         out == IF handled
                THEN [n \in 1..(2 * Len(hit)) |-> body((n + 1) \div 2)[2 - (n % 2)]]
                ELSE << Written(b, m_cs_address[b], set_type(msg, message_dispatching_failure)) >>
     IN  /\ sent' = [sent EXCEPT ![t.id] = @ \o out]
         /\ steps' = [steps EXCEPT ![t.id] = @ + 1]
         /\ network' = network \ {m}
         /\ m_dispatching_record' =
               IF handled THEN m_dispatching_record
               ELSE container_dispatching_record(m_dispatching_record, t.id,
                                                 format_ip(bs_address(b)))
  /\ UNCHANGED <<phase, m_cs_address, m_edge_devices, entered, changes, last, calls>>

\* ---------------------------------------------------------------- handlers
\* base_station::on_dispatching_message, for a packet m delivered to b.
on_dispatching_message(b, m) ==
  /\ phase = "running"
  /\ m \in network
  /\ m.dst = bs_address(b)
  /\ m.type = message_dispatching
  /\ LET msg == Packet(m.type, m.task)
         t == m.task
         hit == loop_devices(m_edge_devices[b], t)
         handled == Len(hit) > 0
         \* per device: the handling message, then the success notice
         body(n) == << Written(b, device_address(b, hit[n]), set_type(msg, message_handling)),
                       Written(b, m_cs_address[b], set_type(msg, message_dispatching_success)) >>
         out == IF handled
                THEN [n \in 1..(2 * Len(hit)) |-> body((n + 1) \div 2)[2 - (n % 2)]]
                ELSE << Written(b, m_cs_address[b], set_type(msg, message_dispatching_failure)) >>
     IN  /\ sent' = [sent EXCEPT ![t.id] = @ \o out]
         /\ steps' = [steps EXCEPT ![t.id] = @ + 1]
         /\ network' = network \ {m}
  /\ UNCHANGED <<phase, m_cs_address, m_edge_devices, m_dispatching_record,
                 entered, changes, last, calls>>

\* Mutant: the forwarded packet carries the handling type.
on_offloading_message_rewriting(b, m) ==
  /\ phase = "running"
  /\ m \in network
  /\ m.dst = bs_address(b)
  /\ m.type = message_offloading_task
  /\ LET msg == Packet(m.type, m.task)
         t == m.task
         hit == loop_devices(m_edge_devices[b], t)
         handled == Len(hit) > 0
         recorded == container_dispatching_record(m_dispatching_record, t.id,
                                                  format_ip(bs_address(b)))
         j == find_if_non_dispatched(recorded, t.id, 1)
     IN  /\ steps' = [steps EXCEPT ![t.id] = @ + 1]
         /\ IF handled
            THEN \* a local device can handle it
                 /\ sent' = [sent EXCEPT ![t.id] = @ \o
                       [n \in 1..Len(hit) |->
                          Written(b, device_address(b, hit[n]), set_type(msg, message_handling))]]
                 /\ m_dispatching_record' =
                       container_erase_dispatching_record(m_dispatching_record, t.id)
                 /\ network' = network \ {m}
            ELSE IF j > 0
            THEN \* forward the packet to a station not yet dispatched to
                 /\ sent' = [sent EXCEPT ![t.id] = Append(@,
                       Written(b, bs_address(j), set_type(msg, message_handling)))]
                 /\ m_dispatching_record' = recorded
                 /\ network' = (network \ {m}) \cup {InFlight(bs_address(j),
                                                         set_type(msg, message_handling))}
            ELSE \* every station is recorded: hand the task to the cloud
                 /\ sent' = [sent EXCEPT ![t.id] = Append(@,
                       Written(b, m_cs_address[b], set_type(msg, message_handling)))]
                 /\ m_dispatching_record' =
                       container_erase_dispatching_record(recorded, t.id)
                 /\ network' = network \ {m}
  /\ UNCHANGED <<phase, m_cs_address, m_edge_devices, entered, changes, last, calls>>

\* base_station::on_offloading_message, for a packet m delivered to b.
on_offloading_message(b, m) ==
  /\ phase = "running"
  /\ m \in network
  /\ m.dst = bs_address(b)
  /\ m.type = message_offloading_task
  /\ LET msg == Packet(m.type, m.task)
         t == m.task
         hit == loop_devices(m_edge_devices[b], t)
         handled == Len(hit) > 0
         recorded == container_dispatching_record(m_dispatching_record, t.id,
                                                  format_ip(bs_address(b)))
         j == find_if_non_dispatched(recorded, t.id, 1)
     IN  /\ steps' = [steps EXCEPT ![t.id] = @ + 1]
         /\ IF handled
            THEN \* a local device can handle it
                 /\ sent' = [sent EXCEPT ![t.id] = @ \o
                       [n \in 1..Len(hit) |->
                          Written(b, device_address(b, hit[n]), set_type(msg, message_handling))]]
                 /\ m_dispatching_record' =
                       container_erase_dispatching_record(m_dispatching_record, t.id)
                 /\ network' = network \ {m}
            ELSE IF j > 0
            THEN \* forward the packet to a station not yet dispatched to
                 /\ sent' = [sent EXCEPT ![t.id] = Append(@,
                       Written(b, bs_address(j), msg))]
                 /\ m_dispatching_record' = recorded
                 /\ network' = (network \ {m}) \cup {InFlight(bs_address(j), msg)}
            ELSE \* every station is recorded: hand the task to the cloud
                 /\ sent' = [sent EXCEPT ![t.id] = Append(@,
                       Written(b, m_cs_address[b], set_type(msg, message_handling)))]
                 /\ m_dispatching_record' =
                       container_erase_dispatching_record(recorded, t.id)
                 /\ network' = network \ {m}
  /\ UNCHANGED <<phase, m_cs_address, m_edge_devices, entered, changes, last, calls>>

Next ==
  \/ \E k \in Tasks, b \in BS, type \in {message_dispatching, message_offloading_task} :
        Inject(k, b, type)
  \/ \E b \in BS, i \in 1..NumDevices, p \in Offers : ResourceChange(b, i, p)
  \/ \E b \in BS, m \in network : on_dispatching_message(b, m)
  \/ \E b \in BS, m \in network : on_offloading_message(b, m)

Spec == Init /\ [][Next]_vars

\* The setup code's calls, then the simulation.
NextSetup ==
  \/ \E b \in BS, cs \in Clouds : link_cloud(b, cs)
  \/ \E cs \in Clouds : container_link_cloud(cs)
  \/ Run
  \/ Next

SetupSpec == InitSetup /\ [][NextSetup]_vars

\* ------------------------------------------- the stations' public interface
\* The records the ledger holds, duplicates counted.
RECURSIVE SumOver(_, _)
SumOver(f, S) ==
  IF S = {} THEN 0
  ELSE LET x == CHOOSE y \in S : TRUE IN f[x] + SumOver(f, S \ {x})
TotalRecords(ledger) ==
  SumOver([id \in TaskIds |-> SumOver(ledger[id], IPs)], TaskIds)

\* base_station::dispatching_record(task_id): record this station's ip.
dispatching_record(b, id) ==
  /\ TotalRecords(m_dispatching_record) < MaxRecords
  /\ m_dispatching_record' =
       container_dispatching_record(m_dispatching_record, id, format_ip(bs_address(b)))
  /\ last' = [op |-> "dispatching_record", task |-> id,
              arg |-> format_ip(bs_address(b)), index |-> 0, result |-> "ok"]
  /\ UNCHANGED <<phase, m_cs_address, m_edge_devices, network, sent, steps,
                 entered, changes, calls>>

\* base_station::dispatched(task_id, bs_ip), on any station: each forwards
\* to the one container.
dispatched(id, ip) ==
  /\ last' = [op |-> "dispatched", task |-> id, arg |-> ip, index |-> 0,
              result |-> IF container_dispatched(m_dispatching_record, id, ip)
                         THEN "true" ELSE "false"]
  /\ UNCHANGED <<phase, m_cs_address, m_edge_devices, m_dispatching_record,
                 network, sent, steps, entered, changes, calls>>

\* base_station::erase_dispatching_record(task_id), on any station; the call
\* noted with the number of records the ledger held for the task.
erase_dispatching_record(id) ==
  /\ m_dispatching_record' =
       container_erase_dispatching_record(m_dispatching_record, id)
  /\ last' = [op |-> "erase_dispatching_record", task |-> id, arg |-> "",
              index |-> SumOver(m_dispatching_record[id], IPs), result |-> "ok"]
  /\ UNCHANGED <<phase, m_cs_address, m_edge_devices, network, sent, steps,
                 entered, changes, calls>>

\* base_station_container::size
size == NumBS

\* CHECK_INDEX(index): throws when index > size().
CHECK_INDEX(index) == index > size

\* base_station_container::get(index): the outcomes of CHECK_INDEX followed
\* by m_base_stations[index].  Reading m_base_stations[size()] is undefined:
\* the build either aborts or hands back whatever lies behind the vector.
get_outcomes(index) ==
  IF CHECK_INDEX(index) THEN {"out_of_range"}
  ELSE IF index < NumBS THEN {format_ip(bs_address(index + 1))}
  ELSE {"crash", "garbage"}

\* get(index), operator[](index) and operator()(index): the latter two
\* return this->get(index).
get(name, index) ==
  /\ \E r \in get_outcomes(index) :
       last' = [op |-> name, task |-> "", arg |-> "", index |-> index, result |-> r]
  /\ UNCHANGED <<phase, m_cs_address, m_edge_devices, m_dispatching_record,
                 network, sent, steps, entered, changes, calls>>

\* A container whose stations are called directly, no packet in flight.
InitApi ==
  /\ phase = "running"
  /\ m_cs_address = [b \in BS |-> CloudAddr]
  /\ m_edge_devices =
       [b \in BS |-> [i \in 1..NumDevices |-> CHOOSE p \in Offers : TRUE]]
  /\ m_dispatching_record = EmptyLedger
  /\ network = {}
  /\ sent = [id \in TaskIds |-> <<>>]
  /\ steps = [id \in TaskIds |-> 0]
  /\ entered = [id \in TaskIds |-> "unused"]
  /\ changes = MaxChanges
  /\ last = NoCall
  /\ calls = NoCalls

NextApi ==
  \/ \E b \in BS, id \in TaskIds : dispatching_record(b, id)
  \/ \E id \in TaskIds, ip \in IPs : dispatched(id, ip)
  \/ \E id \in TaskIds : erase_dispatching_record(id)
  \/ \E name \in {"get", "operator[]", "operator()"}, index \in 0..(NumBS + 1) :
        get(name, index)

ApiSpec == InitApi /\ [][NextApi]_vars

\* ------------------------------------------------ stations run concurrently
\* Each station makes one call on the ledger for the same task id; a call
\* lasts from call_begin to call_end and the calls of different stations
\* may overlap.  The container's three methods take no lock.
SharedTask == task_id(1)

\* dispatching_record and erase_dispatching_record modify the multimap,
\* dispatched only reads it.
IsWrite(op) == op \in {"dispatching_record", "erase_dispatching_record"}

\* What a call does to the ledger when nothing overlaps it.
call_effect(ledger, c) ==
  IF c.op = "dispatching_record"
  THEN container_dispatching_record(ledger, SharedTask, c.arg)
  ELSE IF c.op = "erase_dispatching_record"
  THEN container_erase_dispatching_record(ledger, SharedTask)
  ELSE ledger

\* What a call returns when nothing overlaps it.
call_result(ledger, c) ==
  IF c.op = "dispatched"
  THEN (IF container_dispatched(ledger, SharedTask, c.arg) THEN "true" ELSE "false")
  ELSE "ok"

\* Two unsynchronized accesses to the multimap, one of them a modification,
\* are a data race: the modification may be lost, the read may yield either
\* answer, the process may crash.
race_results(op) ==
  IF op = "dispatched" THEN {"true", "false", "crash"} ELSE {"ok", "crash"}

\* Station b enters one of the three methods.
call_begin(b, op, ip) ==
  /\ calls[b].st = "idle"
  /\ op # "dispatched" => ip = format_ip(bs_address(b))
  /\ LET racing == {c \in BS \ {b} :
                      calls[c].st = "started" /\ (IsWrite(op) \/ IsWrite(calls[c].op))}
     IN  calls' = [c \in BS |->
           IF c = b
           THEN [st |-> "started", op |-> op,
                 arg |-> IF op = "erase_dispatching_record" THEN "" ELSE ip,
                 raced |-> racing # {}, result |-> "none",
                 after |-> {d \in BS : calls[d].st = "done"}]
           ELSE IF c \in racing THEN [calls[c] EXCEPT !.raced = TRUE]
           ELSE calls[c]]
  /\ UNCHANGED <<phase, m_cs_address, m_edge_devices, m_dispatching_record,
                 network, sent, steps, entered, changes, last>>

\* Station b leaves the method: its effect and its result.
call_end(b) ==
  /\ calls[b].st = "started"
  /\ \E applied \in BOOLEAN, r \in race_results(calls[b].op) :
       /\ ~calls[b].raced =>
            applied /\ r = call_result(m_dispatching_record, calls[b])
       /\ m_dispatching_record' =
            IF applied THEN call_effect(m_dispatching_record, calls[b])
            ELSE m_dispatching_record
       /\ calls' = [calls EXCEPT ![b].st = "done", ![b].result = r]
  /\ UNCHANGED <<phase, m_cs_address, m_edge_devices, network, sent, steps,
                 entered, changes, last>>

NextConcurrent ==
  \/ \E b \in BS, ip \in IPs,
         op \in {"dispatching_record", "dispatched", "erase_dispatching_record"} :
        call_begin(b, op, ip)
  \/ \E b \in BS : call_end(b)

ConcurrentSpec == InitApi /\ [][NextConcurrent]_vars

\* ------------------------------------------------------------------ claims
\* The packets of the given type written for a task, as positions in its log.
WrittenOfType(id, type) == {n \in 1..Len(sent[id]) : sent[id][n].type = type}
\* The packets for a task that are on their way to a base station.
InFlightFor(id) == {m \in network : m.task.id = id}
\* A task is resolved once a handling message was written for it.
Resolved(id) == WrittenOfType(id, message_handling) # {}
\* The forwards to peer stations written for a task.
Forwards(id) == {n \in 1..Len(sent[id]) : sent[id][n].dst.kind = "bs"}

\* C1: a task that entered through the offload handler is resolved (a
\* handling message is written, to a device or to the cloud) after at most
\* NumBS + 1 handler invocations: it is never in flight after that many, and
\* never neither in flight nor resolved.
C1_Termination ==
  \A id \in TaskIds :
    entered[id] = message_offloading_task =>
      /\ steps[id] <= NumBS + 1
      /\ (steps[id] >= NumBS + 1 \/ InFlightFor(id) = {}) => Resolved(id)
      /\ Resolved(id) => InFlightFor(id) = {}

\* Every station failed to match and the task went to the cloud.
C1_Witness ==
  \E id \in TaskIds :
    /\ entered[id] = message_offloading_task
    /\ steps[id] = NumBS
    /\ Resolved(id)
    /\ sent[id][Len(sent[id])].dst = CloudAddr

\* C2: a packet forwarded to a base station is on its way to a station that
\* has no record for the task in the ledger and that did not write any of the
\* task's earlier packets, i.e. did not fail to match it before.
C2_NoRevisit ==
  \A m \in network :
    m.type = message_offloading_task =>
      /\ m_dispatching_record[m.task.id][format_ip(m.dst)] = 0
      /\ \A n \in 1..Len(sent[m.task.id]) : bs_address(sent[m.task.id][n].src) # m.dst

\* A task forwarded a second time, two stations recorded.
C2_Witness ==
  \E m \in network :
    /\ m.type = message_offloading_task
    /\ Cardinality(Forwards(m.task.id)) = 2
    /\ Cardinality({ip \in IPs : m_dispatching_record[m.task.id][ip] > 0}) = 2

\* C3: once a handling message was written for a task, by either handler,
\* to a device or to the cloud, the ledger holds no record for the task and
\* the lookup reports no station as recorded.
C3_LedgerClean ==
  \A id \in TaskIds :
    Resolved(id) =>
      \A ip \in IPs : /\ m_dispatching_record[id][ip] = 0
                      /\ container_dispatched(m_dispatching_record, id, ip)

\* A task matched by a station's device after another station recorded itself.
C3_Witness ==
  \E id \in TaskIds :
    /\ Forwards(id) # {}
    /\ Resolved(id)
    /\ sent[id][Len(sent[id])].dst.kind = "dev"

\* C4: over the handling of a task that entered through the offload handler
\* at most one handling message is written, to an edge device or to the
\* cloud, none while a packet for it is in flight, and exactly one once no
\* packet for it is in flight.
C4_ExactlyOnce ==
  \A id \in TaskIds :
    entered[id] = message_offloading_task =>
      /\ Cardinality(WrittenOfType(id, message_handling)) =
           (IF InFlightFor(id) = {} THEN 1 ELSE 0)
      /\ \A n \in WrittenOfType(id, message_handling) :
           sent[id][n].dst.kind = "dev" \/ sent[id][n].dst = CloudAddr

\* A task handled by a station whose devices can both take it.
C4_Witness ==
  \E id \in TaskIds, b \in BS :
    /\ entered[id] = message_offloading_task
    /\ Resolved(id)
    /\ sent[id][Len(sent[id])].dst = device_address(b, 1)
    /\ \A i \in 1..NumDevices : m_edge_devices[b][i] = m_edge_devices[b][1]
    /\ changes = MaxChanges

\* C5: the lookup answers true exactly when the station's ip is among the
\* records of the task id.
C5_LookupTrueIffRecorded ==
  last.op = "dispatched" =>
    (last.result = "true" <=> m_dispatching_record[last.task][last.arg] > 0)

\* C6: an address appears at most once among the records of a task id.
C6_AtMostOncePerTask ==
  \A id \in TaskIds, ip \in IPs : m_dispatching_record[id][ip] <= 1

\* C7: after erase_dispatching_record the ledger holds no record for the
\* task id and the lookup finds none for any station, the call raises no
\* error, and when the task id had no record the ledger is left as it was.
C7_EraseRemovesAll ==
  /\ [](last.op = "erase_dispatching_record" =>
          /\ last.result = "ok"
          /\ \A ip \in IPs : /\ m_dispatching_record[last.task][ip] = 0
                          /\ container_dispatched(m_dispatching_record, last.task, ip))
  /\ [][\A id \in TaskIds :
          ( /\ last'.op = "erase_dispatching_record"
            /\ last'.task = id
            /\ \A ip \in IPs : m_dispatching_record[id][ip] = 0 )
          => m_dispatching_record' = m_dispatching_record]_vars

\* An erase that removed the records of two stations, another task's kept.
C7_Witness ==
  /\ last.op = "erase_dispatching_record"
  /\ last.index >= 2
  /\ \E id \in TaskIds, ip \in IPs : m_dispatching_record[id][ip] > 0

\* The condition of the claim on an offer d and a task t.
Satisfies(d, t) ==
  /\ d.free_cpu_cycles > t.needed_cpu_cycles
  /\ d.free_memory > t.needed_memory
  /\ d.price <= t.budget

\* C8: in a step of either handler, the handling message goes to the first
\* device of the handling station, in the container's order, that satisfies
\* the task, and no handling message goes to a device when none does.
C8_FirstFit ==
  [][\A id \in TaskIds :
       sent'[id] # sent[id] =>
         LET new == SubSeq(sent'[id], Len(sent[id]) + 1, Len(sent'[id]))
             b == new[1].src
             t == new[1].task
             devs == m_edge_devices[b]
             fit == {i \in 1..Len(devs) : Satisfies(devs[i], t)}
             to_dev == {n \in 1..Len(new) :
                          new[n].type = message_handling /\ new[n].dst.kind = "dev"}
         IN  IF fit = {}
             THEN to_dev = {}
             ELSE /\ Cardinality(to_dev) = 1
                  /\ \A n \in to_dev :
                       /\ new[n].dst.bs = b
                       /\ new[n].dst.idx \in fit
                       /\ \A i \in fit : new[n].dst.idx <= i]_vars

\* A task handled by the second device of a station: the first has exactly
\* the cpu cycles or the memory the task needs, the second costs exactly
\* the task's budget.
C8_Witness ==
  \E id \in TaskIds, b \in BS :
    /\ Resolved(id)
    /\ LET w == sent[id][Len(sent[id])]
           d == m_edge_devices[b]
       IN  /\ w.src = b
           /\ w.dst = device_address(b, 2)
           /\ \/ d[1].free_cpu_cycles = w.task.needed_cpu_cycles
              \/ d[1].free_memory = w.task.needed_memory
           /\ d[1].price <= w.task.budget
           /\ d[2].price = w.task.budget

\* C9: indexed access fails with an out-of-range error for every index
\* >= size() and returns the station at the index for every index < size().
C9_IndexChecked ==
  last.op \in {"get", "operator[]", "operator()"} =>
    /\ last.index >= size => last.result = "out_of_range"
    /\ last.index < size => last.result = format_ip(bs_address(last.index + 1))

\* C10: a link_cloud call with a cloud server whose address is not
\* initialized ends the process; the call stores no address, nothing was
\* written before it and no step follows it.
C10_LinkCloudFailsFast ==
  /\ [](last.op = "link_cloud" /\ last.arg = "uninit" =>
          phase = "exited" /\ last.result = "exit")
  /\ [](phase = "exited" =>
          network = {} /\ \A id \in TaskIds : sent[id] = <<>>)
  /\ [][phase' = "exited" => m_cs_address' = m_cs_address]_vars
  /\ [][phase # "exited"]_vars

\* The process exited in link_cloud after another station was linked.
C10_Witness ==
  /\ phase = "exited"
  /\ last.op = "link_cloud"
  /\ last.arg = "uninit"
  /\ \E b \in BS : m_cs_address[b] = CloudAddr

\* The orders in which the finished calls may have taken effect: an order
\* keeps a call that ended before another began in front of it.
CallOrders ==
  LET D == {b \in BS : calls[b].st = "done"}
  IN  {f \in [1..Cardinality(D) -> D] :
         /\ \A i, j \in 1..Cardinality(D) : i # j => f[i] # f[j]
         /\ \A i, j \in 1..Cardinality(D) : f[j] \in calls[f[i]].after => j < i}

\* Making the calls one after the other in the order f, from position i and
\* the given ledger, gives the results the calls returned and the ledger
\* as it is now.
RECURSIVE Replays(_, _, _)
Replays(f, i, ledger) ==
  IF i > Len(f) THEN ledger = m_dispatching_record
  ELSE /\ call_result(ledger, calls[f[i]]) = calls[f[i]].result
       /\ Replays(f, i + 1, call_effect(ledger, calls[f[i]]))

\* C11: when stations call dispatching_record, dispatched and
\* erase_dispatching_record for one task id concurrently, the results and
\* the ledger, once no call is in progress, are those of the same calls
\* made one after the other in some order.
C11_Linearizable ==
  (\A b \in BS : calls[b].st # "started") =>
    \E f \in CallOrders : Replays(f, 1, EmptyLedger)

\* The stations that wrote the first n packets of a task.
Writers(id, n) == {sent[id][k].src : k \in 1..n}

\* C12: in a step of the offload handler that finds no local device, the
\* handling message to the cloud is written exactly when every station,
\* the handling one included, is recorded for the task, and the task's
\* records are then erased; a task that reached the cloud was handled by
\* every station once and has no record left.
C12_CloudWhenAllTried ==
  /\ [][\A id \in TaskIds :
          (entered[id] = message_offloading_task /\ sent'[id] # sent[id]) =>
            LET w == sent'[id][Len(sent'[id])]
                tried == {c \in BS : c = w.src \/
                            m_dispatching_record[id][format_ip(bs_address(c))] > 0}
            IN  w.dst.kind # "dev" =>
                  /\ (w.dst = CloudAddr) <=> (tried = BS)
                  /\ w.dst = CloudAddr =>
                       /\ w.type = message_handling
                       /\ \A ip \in IPs : m_dispatching_record'[id][ip] = 0]_vars
  /\ [](\A id \in TaskIds :
          ( /\ entered[id] = message_offloading_task
            /\ sent[id] # <<>>
            /\ sent[id][Len(sent[id])].dst = CloudAddr ) =>
            /\ Len(sent[id]) = NumBS
            /\ Writers(id, NumBS) = BS
            /\ \A ip \in IPs : m_dispatching_record[id][ip] = 0)

\* A task that entered at the second station and reached the cloud.
C12_Witness ==
  \E id \in TaskIds :
    /\ entered[id] = message_offloading_task
    /\ Len(sent[id]) = NumBS
    /\ sent[id][1].src = 2
    /\ sent[id][NumBS].dst = CloudAddr
    /\ sent[id][NumBS].type = message_handling

\* C13: a packet forwarded by the offload handler is on its way to the
\* first station, in the container's order, that is not recorded for the
\* task: every station before it is recorded, and was recorded or was the
\* forwarding station when the packet was written.
C13_FirstUnrecorded ==
  \A id \in TaskIds :
    entered[id] = message_offloading_task =>
      /\ \A n \in Forwards(id) :
           /\ sent[id][n].dst.bs \notin Writers(id, n)
           /\ \A c \in BS : c < sent[id][n].dst.bs => c \in Writers(id, n)
      /\ \A m \in InFlightFor(id) :
           steps[id] > 0 =>
             /\ m_dispatching_record[id][format_ip(m.dst)] = 0
             /\ \A c \in BS : c < m.dst.bs =>
                  m_dispatching_record[id][format_ip(bs_address(c))] > 0

\* A task that entered at the second station, went to the first and is on
\* its way to the third.
C13_Witness ==
  \E id \in TaskIds :
    /\ Len(sent[id]) = 2
    /\ sent[id][1].src = 2 /\ sent[id][1].dst = bs_address(1)
    /\ sent[id][2].src = 1 /\ sent[id][2].dst = bs_address(3)
    /\ InFlightFor(id) # {}

\* C14: a station that forwards a task is recorded for it as long as the
\* packet is on its way, and no packet is forwarded to the station that
\* writes it; a station that hands the task to the cloud is the last one
\* left without a record.
C14_RecordsItselfFirst ==
  \A id \in TaskIds :
    entered[id] = message_offloading_task =>
      /\ \A n \in Forwards(id) : sent[id][n].dst # bs_address(sent[id][n].src)
      /\ InFlightFor(id) # {} =>
           \A c \in Writers(id, Len(sent[id])) :
             m_dispatching_record[id][format_ip(bs_address(c))] = 1
      /\ \A n \in 1..Len(sent[id]) :
           sent[id][n].dst = CloudAddr => Writers(id, n - 1) = BS \ {sent[id][n].src}

\* The first station of the container failed to match and forwarded the
\* task to the second.
C14_Witness ==
  \E id \in TaskIds :
    /\ Len(sent[id]) = 1
    /\ sent[id][1].src = 1
    /\ sent[id][1].dst = bs_address(2)
    /\ m_dispatching_record[id][format_ip(bs_address(1))] = 1

\* C15: the packets the request handler writes for a task it matched are
\* exactly two: the handling message with the task to a device of the
\* handling station, then the dispatching success notice with the task to
\* the station's cloud address.
C15_RequestMatchWrites ==
  \A id \in TaskIds :
    (entered[id] = message_dispatching /\ Resolved(id)) =>
      /\ Len(sent[id]) = 2
      /\ sent[id][1].type = message_handling
      /\ sent[id][1].dst.kind = "dev"
      /\ sent[id][1].dst.bs = sent[id][1].src
      /\ sent[id][2].type = message_dispatching_success
      /\ sent[id][2].dst = m_cs_address[sent[id][2].src]
      /\ sent[id][2].dst = CloudAddr
      /\ sent[id][2].src = sent[id][1].src
      /\ sent[id][1].task = sent[id][2].task
      /\ sent[id][1].task.id = id

\* A request matched by a station whose devices can both take the task.
C15_Witness ==
  \E id \in TaskIds, b \in BS :
    /\ entered[id] = message_dispatching
    /\ Len(sent[id]) = 2
    /\ sent[id][1].dst = device_address(b, 1)
    /\ m_edge_devices[b][2] = m_edge_devices[b][1]
    /\ changes = MaxChanges
    /\ \A other \in TaskIds : entered[other] # "unused"

\* C16: once the request handler ran for a task it did not match, exactly
\* one packet is written for it, the dispatching failure notice to the
\* station's cloud address; no request is forwarded to a base station and
\* none is left without a packet.
C16_RequestNoMatchWrites ==
  \A id \in TaskIds :
    entered[id] = message_dispatching =>
      /\ Forwards(id) = {}
      /\ steps[id] <= 1
      /\ (steps[id] = 1) <=> (sent[id] # <<>>)
      /\ (steps[id] = 1) <=> (InFlightFor(id) = {})
      /\ (steps[id] = 1 /\ ~Resolved(id)) =>
           /\ Len(sent[id]) = 1
           /\ sent[id][1].type = message_dispatching_failure
           /\ sent[id][1].dst = CloudAddr
           /\ sent[id][1].task.id = id

\* A request no device of the station could take, other stations' could.
C16_Witness ==
  \E id \in TaskIds, b \in BS :
    /\ entered[id] = message_dispatching
    /\ Len(sent[id]) = 1
    /\ sent[id][1].src = b
    /\ sent[id][1].type = message_dispatching_failure
    /\ \E c \in BS \ {b} : scan_devices(m_edge_devices[c], sent[id][1].task, 1) > 0
    /\ \A other \in TaskIds : entered[other] # "unused"

\* C17: a step of the request handler leaves the dispatch ledger as it was,
\* whether a device took the task or not, so a task that entered as a
\* request never has a record.
C17_RequestLeavesLedger ==
  /\ [][\A id \in TaskIds :
          (entered[id] = message_dispatching /\ steps'[id] # steps[id]) =>
            m_dispatching_record' = m_dispatching_record]_vars
  /\ [](\A id \in TaskIds : entered[id] = message_dispatching =>
          \A ip \in IPs : m_dispatching_record[id][ip] = 0)

\* A request was refused by its station while an offloaded task's records
\* were in the ledger.
C17_Witness ==
  \E id \in TaskIds, other \in TaskIds :
    /\ entered[id] = message_dispatching
    /\ steps[id] = 1
    /\ ~Resolved(id)
    /\ entered[other] = message_offloading_task
    /\ \E ip \in IPs : m_dispatching_record[other][ip] > 0

\* C18: a packet the offload handler forwards to a base station is the
\* inbound one: it keeps the offloading type and the task the originator
\* sent, so the packets in flight between stations are handled by the
\* offload handler again; the handling type is written only to devices and
\* to the cloud.
C18_ForwardUnchanged ==
  \A k \in Tasks :
    LET id == task_id(k) IN
    entered[id] = message_offloading_task =>
      /\ \A n \in 1..Len(sent[id]) :
            /\ sent[id][n].task = TaskOf(k)
            /\ (sent[id][n].dst.kind = "bs") <=> (sent[id][n].type = message_offloading_task)
            /\ (sent[id][n].dst.kind # "bs") <=> (sent[id][n].type = message_handling)
      /\ \A m \in InFlightFor(id) :
            /\ m.type = message_offloading_task
            /\ m.task = TaskOf(k)
            /\ sent[id] # <<>> =>
                  m = InFlight(sent[id][Len(sent[id])].dst,
                               Packet(message_offloading_task, TaskOf(k)))
      /\ steps[id] = Len(sent[id])

\* A task was forwarded twice and its second forward is in flight.
C18_Witness ==
  \E k \in Tasks :
    /\ entered[task_id(k)] = message_offloading_task
    /\ Len(sent[task_id(k)]) = 2
    /\ sent[task_id(k)][2].dst.kind = "bs"
    /\ InFlightFor(task_id(k)) # {}

\* C19: no step of a handler changes an edge device's free cpu, free memory
\* or price; a device a task was dispatched to therefore still fits it as
\* long as nothing else changes the device, and a second task can be
\* dispatched to the same device.
C19_MatchingKeepsOffers ==
  /\ [][(\E id \in TaskIds : steps'[id] # steps[id]) =>
          m_edge_devices' = m_edge_devices]_vars
  /\ [](changes = MaxChanges /\ (\A other \in TaskIds : entered[other] # "unused") =>
          \A id \in TaskIds : \A n \in 1..Len(sent[id]) :
            sent[id][n].dst.kind = "dev" =>
              /\ device_fits(m_edge_devices[sent[id][n].dst.bs][sent[id][n].dst.idx],
                             sent[id][n].task)
              /\ has_free_resource(m_edge_devices[sent[id][n].src], sent[id][n].task))

\* Two tasks were dispatched to the same device, one by each handler.
C19_Witness ==
  \E id \in TaskIds, other \in TaskIds :
    /\ id # other
    /\ entered[id] = message_dispatching
    /\ entered[other] = message_offloading_task
    /\ sent[id] # <<>>
    /\ sent[other] # <<>>
    /\ sent[id][1].dst.kind = "dev"
    /\ sent[other][Len(sent[other])].dst = sent[id][1].dst

\* The records the packets written for a task account for: one of every
\* station that forwarded it while its last forward stands, none otherwise.
OwnRecords(id) ==
  [ip \in IPs |->
     IF /\ sent[id] # <<>>
        /\ sent[id][Len(sent[id])].dst.kind = "bs"
        /\ \E c \in Writers(id, Len(sent[id])) : ip = format_ip(bs_address(c))
     THEN 1 ELSE 0]

\* C20: a handling step of one task leaves the records of every other task
\* as they were, and so do a record and an erase made for one task id; the
\* records of a task are at all times those its own packets account for,
\* whatever the other tasks did in between.
C20_LedgerIsolation ==
  /\ [][\A id \in TaskIds :
          steps'[id] # steps[id] =>
            \A other \in TaskIds \ {id} :
              m_dispatching_record'[other] = m_dispatching_record[other]]_vars
  /\ [](\A id \in TaskIds :
          /\ m_dispatching_record[id] = OwnRecords(id)
          /\ \A other \in TaskIds \ {id} :
                /\ container_erase_dispatching_record(m_dispatching_record, id)[other]
                     = m_dispatching_record[other]
                /\ \A ip \in IPs :
                     container_dispatching_record(m_dispatching_record, id, ip)[other]
                       = m_dispatching_record[other])

\* One task reached the cloud, and had its records erased, while another
\* task's forward was in flight with its records in the ledger.
C20_Witness ==
  \E id \in TaskIds, other \in TaskIds :
    /\ id # other
    /\ entered[id] = message_offloading_task
    /\ sent[id] # <<>>
    /\ sent[id][Len(sent[id])].dst = CloudAddr
    /\ entered[other] = message_offloading_task
    /\ InFlightFor(other) # {}
    /\ \E ip \in IPs : m_dispatching_record[other][ip] > 0

====
